---- MODULE Spec2Model ----
(***************************************************************************)
(* FfiCell (src/src/lib.rs): a cell through which an owner lends a raw     *)
(* pointer to foreign code.  The cell is two atomics, ptr: AtomicPtr<T>    *)
(* and in_use: AtomicBool.  Every operation is at most two SeqCst atomic   *)
(* steps; each atomic step is one action here, so every interleaving of    *)
(* the steps of concurrent callers is a behaviour of Spec.                 *)
(***************************************************************************)
EXTENDS Integers, Sequences, FiniteSets, TLC

\* Number of threads calling into the cell.
NumThreads == 3
\* Number of distinct non-null addresses an owner may lend.
NumAddrs == 2

\* Number of try_run calls a thread nests (try_run inside the operation of
\* a try_run).
MaxRunDepth == 2

\* null_mut()
NULL == 0

Threads == 1..NumThreads
Addrs == 1..NumAddrs

VARIABLES
  ptr,       \* FfiCell.ptr: NULL or the lent address
  in_use,    \* FfiCell.in_use
  pc,        \* per thread: the atomic step its current call is about to take
  arg,       \* per thread: the `ptr` parameter of its try_lend in flight
  guards,    \* per thread: FfiGuard.ptr of every guard it holds, not yet dropped
  dropping,  \* per thread: FfiGuard.ptr of the guard whose drop is in flight
  res,       \* per thread: what its last finished call returned
  panicked,  \* per thread: it has panicked and only unwinds (drops its guards)
  lastLent,  \* history: the address of the most recent try_lend that returned Ok
  snap,      \* history: per thread, the cell as its try_borrow found it, kept
             \* while no other thread has taken a step since
  scen,      \* the scenario: which threads make which calls ("free": any)
  lin,       \* history (kept when scen.kind = "lin"): the configurations the
             \* atomic state machine can be in, given the calls and returns so far
  run,       \* per thread: the number of try_run calls it is inside of, each
             \* with a ScopeGuard that reclaims when the call is left
  hist       \* history: loaned - a try_lend has returned Ok and no try_reclaim
             \* has returned Ok since; stuck - a try_borrow has returned
             \* Unavailable; runErr - a try_run has returned a lend error

vars == <<ptr, in_use, pc, arg, guards, dropping, res, panicked, lastLent, snap, scen, lin,
          run, hist>>

\* The values of `res`.
LendErrors == {"AlreadyLent", "AlreadyHasLoan"}
BorrowErrors == {"Unavailable", "AlreadyBorrowed"}
ReclaimErrors == {"InUse"}
Panics == {"PanicMissingPointer", "PanicAnotherPointer", "PanicNotInUse"}
Results == {"none", "Ok", "Guard", "Released"} \cup LendErrors \cup BorrowErrors
             \cup ReclaimErrors \cup Panics

NoSnap == [p |-> NULL, b |-> TRUE]

\* A thread may start a call: it is between calls and has not panicked.
CanCall(t) == pc[t] = "idle" /\ ~panicked[t]

\* History bookkeeping of a step by thread t: every other thread loses its
\* snapshot, t keeps or replaces its own.
SnapStep(t, s) == snap' = [u \in Threads |-> IF u = t THEN s ELSE NoSnap]

(***************************************************************************)
(* The calls executed one at a time, each atomically: the Empty / Lent /   *)
(* Borrowed state machine.  Each takes the cell (p, b) and gives the cell  *)
(* after the call and what the call returns, <<result, guard address>>.    *)
(***************************************************************************)
NoRes == <<"-", NULL>>

\* try_lend(a)
SeqLend(a, p, b) ==
  IF b THEN [p |-> p, b |-> b, r |-> <<"AlreadyLent", NULL>>]
  ELSE IF p # NULL THEN [p |-> p, b |-> b, r |-> <<"AlreadyHasLoan", NULL>>]
  ELSE [p |-> a, b |-> b, r |-> <<"Ok", NULL>>]

\* try_borrow()
SeqBorrow(p, b) ==
  IF b THEN [p |-> p, b |-> TRUE, r |-> <<"AlreadyBorrowed", NULL>>]
  ELSE IF p # NULL THEN [p |-> NULL, b |-> TRUE, r |-> <<"Guard", p>>]
  ELSE [p |-> NULL, b |-> TRUE, r |-> <<"Unavailable", NULL>>]

\* try_reclaim()
SeqReclaim(p, b) ==
  IF b THEN [p |-> p, b |-> b, r |-> <<"InUse", NULL>>]
  ELSE IF p = NULL THEN [p |-> NULL, b |-> b, r |-> <<"PanicMissingPointer", NULL>>]
  ELSE [p |-> NULL, b |-> b, r |-> <<"Ok", NULL>>]

\* drop of a guard holding g
SeqRelease(g, p, b) ==
  IF p # NULL THEN [p |-> p, b |-> b, r |-> <<"PanicAnotherPointer", NULL>>]
  ELSE IF b THEN [p |-> g, b |-> FALSE, r |-> <<"Released", NULL>>]
  ELSE [p |-> g, b |-> FALSE, r |-> <<"PanicNotInUse", NULL>>]

SeqApply(op, p, b) ==
  CASE op[1] = "lend" -> SeqLend(op[2], p, b)
    [] op[1] = "borrow" -> SeqBorrow(p, b)
    [] op[1] = "reclaim" -> SeqReclaim(p, b)
    [] op[1] = "release" -> SeqRelease(op[2], p, b)

\* The call thread u is in the middle of.
PendOp(u) ==
  CASE pc[u] = "lend_cas" -> <<"lend", arg[u]>>
    [] pc[u] = "borrow_take" -> <<"borrow", NULL>>
    [] pc[u] = "reclaim_swap" -> <<"reclaim", NULL>>
    [] pc[u] = "drop_clear" -> <<"release", dropping[u]>>

\* Configuration c after the pending call `op` of thread u takes effect.
LinOne(c, u, op) ==
  LET n == SeqApply(op, c.p, c.b)
  IN [p |-> n.p, b |-> n.b, out |-> [c.out EXCEPT ![u] = n.r]]

\* Every configuration reachable from S by letting pending calls (ops: thread
\* -> call) that have not taken effect yet take effect, in any order.
RECURSIVE LinClosure(_, _)
LinClosure(S, ops) ==
  LET T == S \cup UNION { { LinOne(c, u, ops[u]) :
                              u \in {v \in DOMAIN ops : c.out[v] = NoRes} } : c \in S }
  IN IF T = S THEN S ELSE LinClosure(T, ops)

\* History bookkeeping of a step by thread t of its call `op`.  When the step
\* is the call's first, the call becomes pending; when it is its last, only
\* the configurations in which the call took effect with the result returned
\* remain.  lin is empty exactly when no order of the calls so far, each
\* taking effect between its first and its last step, explains the results.
LinStep(t, op) ==
  IF scen.kind # "lin" THEN lin' = lin
  ELSE
    LET pend == {u \in Threads \ {t} : pc[u] # "idle"}
        ops == [u \in pend \cup {t} |-> IF u = t THEN op ELSE PendOp(u)]
        called == IF pc[t] = "idle" THEN LinClosure(lin, ops) ELSE lin
        r == <<res'[t],
               IF res'[t] = "Guard" THEN guards'[t][Len(guards'[t])] ELSE NULL>>
    IN lin' = IF pc'[t] = "idle"
                THEN {[c EXCEPT !.out[t] = NoRes] : c \in {d \in called : d.out[t] = r}}
                ELSE called

TypeOK ==
  /\ ptr \in Addrs \cup {NULL}
  /\ in_use \in BOOLEAN
  /\ pc \in [Threads -> {"idle", "lend_cas", "borrow_take", "reclaim_swap", "drop_clear",
                          "run_lend_cas", "run_reclaim_swap", "aborted"}]
  /\ arg \in [Threads -> Addrs \cup {NULL}]
  /\ guards \in [Threads -> Seq(Addrs)]
  /\ dropping \in [Threads -> Addrs \cup {NULL}]
  /\ res \in [Threads -> Results]
  /\ panicked \in [Threads -> BOOLEAN]
  /\ lastLent \in Addrs \cup {NULL}
  /\ run \in [Threads -> 0..MaxRunDepth]
  /\ hist \in [loaned : BOOLEAN, stuck : BOOLEAN, runErr : BOOLEAN]

\* A cell holding p (NULL: as FfiCell::new makes it), no call made yet.
InitCell(p) ==
  /\ ptr = p
  /\ in_use = FALSE
  /\ pc = [t \in Threads |-> "idle"]
  /\ arg = [t \in Threads |-> NULL]
  /\ guards = [t \in Threads |-> <<>>]
  /\ dropping = [t \in Threads |-> NULL]
  /\ res = [t \in Threads |-> "none"]
  /\ panicked = [t \in Threads |-> FALSE]
  /\ lastLent = p
  /\ snap = [t \in Threads |-> NoSnap]
  /\ run = [t \in Threads |-> 0]
  /\ hist = [loaned |-> p # NULL, stuck |-> FALSE, runErr |-> FALSE]

\* FfiCell::new
Init ==
  /\ InitCell(NULL)
  /\ scen = [kind |-> "free", who |-> Threads]
  /\ lin = {}

\* The same program, with the history `lin` kept.
InitLin ==
  /\ InitCell(NULL)
  /\ scen = [kind |-> "lin", who |-> Threads]
  /\ lin = {[p |-> NULL, b |-> FALSE, out |-> [t \in Threads |-> NoRes]]}

(***************************************************************************)
(* try_lend(ptr): load in_use, then compare_exchange(null, ptr).           *)
(***************************************************************************)
\* if self.in_use.load(SeqCst) { return Err(LendError::AlreadyLent) }
LendCheck(t, a) ==
  /\ CanCall(t)
  /\ IF in_use
       THEN /\ res' = [res EXCEPT ![t] = "AlreadyLent"]
            /\ UNCHANGED <<pc, arg>>
       ELSE /\ pc' = [pc EXCEPT ![t] = "lend_cas"]
            /\ arg' = [arg EXCEPT ![t] = a]
            /\ res' = [res EXCEPT ![t] = "none"]
  /\ SnapStep(t, NoSnap)
  /\ UNCHANGED <<ptr, in_use, guards, dropping, panicked, lastLent, scen, run, hist>>
  /\ LinStep(t, <<"lend", a>>)

\* Mutant of LendCas: the address is stored with a plain swap, whatever the
\* slot holds.
LendCas_Swap(t) ==
  /\ pc[t] = "lend_cas"
  /\ ptr' = arg[t]
  /\ lastLent' = arg[t]
  /\ hist' = [hist EXCEPT !.loaned = TRUE]
  /\ res' = [res EXCEPT ![t] = "Ok"]
  /\ pc' = [pc EXCEPT ![t] = "idle"]
  /\ arg' = [arg EXCEPT ![t] = NULL]
  /\ SnapStep(t, NoSnap)
  /\ UNCHANGED <<in_use, guards, dropping, panicked, scen, run>>
  /\ LinStep(t, <<"lend", arg[t]>>)

\* Mutant of LendCas: a lend that waits for the slot to be empty.
LendCas_Wait(t) ==
  /\ pc[t] = "lend_cas"
  /\ ptr = NULL
  /\ ptr' = arg[t]
  /\ lastLent' = arg[t]
  /\ hist' = [hist EXCEPT !.loaned = TRUE]
  /\ res' = [res EXCEPT ![t] = "Ok"]
  /\ pc' = [pc EXCEPT ![t] = "idle"]
  /\ arg' = [arg EXCEPT ![t] = NULL]
  /\ SnapStep(t, NoSnap)
  /\ UNCHANGED <<in_use, guards, dropping, panicked, scen, run>>
  /\ LinStep(t, <<"lend", arg[t]>>)

\* self.ptr.compare_exchange(null_mut(), ptr, SeqCst, SeqCst)
LendCas(t) ==
  /\ pc[t] = "lend_cas"
  /\ IF ptr = NULL
       THEN /\ ptr' = arg[t]
            /\ lastLent' = arg[t]
            /\ hist' = [hist EXCEPT !.loaned = TRUE]
            /\ res' = [res EXCEPT ![t] = "Ok"]
       ELSE /\ res' = [res EXCEPT ![t] = "AlreadyHasLoan"]
            /\ UNCHANGED <<ptr, lastLent, hist>>
  /\ pc' = [pc EXCEPT ![t] = "idle"]
  /\ arg' = [arg EXCEPT ![t] = NULL]
  /\ SnapStep(t, NoSnap)
  /\ UNCHANGED <<in_use, guards, dropping, panicked, scen, run>>
  /\ LinStep(t, <<"lend", arg[t]>>)

(***************************************************************************)
(* try_borrow(): in_use.swap(true), then ptr.swap(null).                   *)
(***************************************************************************)
\* Mutant of BorrowClaim: the flag is set without looking at what it was.
BorrowClaim_NoTest(t) ==
  /\ CanCall(t)
  /\ in_use' = TRUE
  /\ pc' = [pc EXCEPT ![t] = "borrow_take"]
  /\ res' = [res EXCEPT ![t] = "none"]
  /\ SnapStep(t, [p |-> ptr, b |-> in_use])
  /\ UNCHANGED <<ptr, arg, guards, dropping, panicked, lastLent, scen, run, hist>>
  /\ LinStep(t, <<"borrow", NULL>>)

\* if self.in_use.swap(true, SeqCst) { Err(BorrowError::AlreadyBorrowed) }
BorrowClaim(t) ==
  /\ CanCall(t)
  /\ in_use' = TRUE
  /\ IF in_use
       THEN /\ res' = [res EXCEPT ![t] = "AlreadyBorrowed"]
            /\ SnapStep(t, NoSnap)
            /\ UNCHANGED pc
       ELSE /\ pc' = [pc EXCEPT ![t] = "borrow_take"]
            /\ res' = [res EXCEPT ![t] = "none"]
            /\ SnapStep(t, [p |-> ptr, b |-> in_use])
  /\ UNCHANGED <<ptr, arg, guards, dropping, panicked, lastLent, scen, run, hist>>
  /\ LinStep(t, <<"borrow", NULL>>)

\* Mutant of BorrowTake: the slot is cleared and then read, so the address
\* taken is always null.
BorrowTake_ReadAfterClear(t) ==
  /\ pc[t] = "borrow_take"
  /\ ptr' = NULL
  /\ res' = [res EXCEPT ![t] = "Unavailable"]
  /\ hist' = [hist EXCEPT !.stuck = TRUE]
  /\ SnapStep(t, NoSnap)
  /\ pc' = [pc EXCEPT ![t] = "idle"]
  /\ UNCHANGED <<in_use, arg, guards, dropping, panicked, lastLent, scen, run>>
  /\ LinStep(t, <<"borrow", NULL>>)

\* Mutant of BorrowTake: a borrow that finds no address gives the flag back.
BorrowTake_Unclaim(t) ==
  /\ pc[t] = "borrow_take"
  /\ ptr' = NULL
  /\ IF ptr # NULL
       THEN /\ guards' = [guards EXCEPT ![t] = Append(@, ptr)]
            /\ res' = [res EXCEPT ![t] = "Guard"]
            /\ SnapStep(t, snap[t])
            /\ UNCHANGED <<hist, in_use>>
       ELSE /\ res' = [res EXCEPT ![t] = "Unavailable"]
            /\ hist' = [hist EXCEPT !.stuck = TRUE]
            /\ in_use' = FALSE
            /\ SnapStep(t, NoSnap)
            /\ UNCHANGED guards
  /\ pc' = [pc EXCEPT ![t] = "idle"]
  /\ UNCHANGED <<arg, dropping, panicked, lastLent, scen, run>>
  /\ LinStep(t, <<"borrow", NULL>>)

\* let ptr = self.ptr.swap(null_mut(), SeqCst); match NonNull::new(ptr) ...
BorrowTake(t) ==
  /\ pc[t] = "borrow_take"
  /\ ptr' = NULL
  /\ IF ptr # NULL
       THEN /\ guards' = [guards EXCEPT ![t] = Append(@, ptr)]
            /\ res' = [res EXCEPT ![t] = "Guard"]
            /\ SnapStep(t, snap[t])
            /\ UNCHANGED hist
       ELSE /\ res' = [res EXCEPT ![t] = "Unavailable"]
            /\ hist' = [hist EXCEPT !.stuck = TRUE]
            /\ SnapStep(t, NoSnap)
            /\ UNCHANGED guards
  /\ pc' = [pc EXCEPT ![t] = "idle"]
  /\ UNCHANGED <<in_use, arg, dropping, panicked, lastLent, scen, run>>
  /\ LinStep(t, <<"borrow", NULL>>)

(***************************************************************************)
(* try_reclaim(): load in_use, then ptr.swap(null).                        *)
(***************************************************************************)
\* Mutant of ReclaimCheck: the busy flag is not looked at.
ReclaimCheck_NoTest(t) ==
  /\ CanCall(t)
  /\ pc' = [pc EXCEPT ![t] = "reclaim_swap"]
  /\ res' = [res EXCEPT ![t] = "none"]
  /\ SnapStep(t, NoSnap)
  /\ UNCHANGED <<ptr, in_use, arg, guards, dropping, panicked, lastLent, scen, run, hist>>
  /\ LinStep(t, <<"reclaim", NULL>>)

\* if self.in_use.load(SeqCst) { Err(ReclaimError::InUse) }
ReclaimCheck(t) ==
  /\ CanCall(t)
  /\ IF in_use
       THEN /\ res' = [res EXCEPT ![t] = "InUse"]
            /\ UNCHANGED pc
       ELSE /\ pc' = [pc EXCEPT ![t] = "reclaim_swap"]
            /\ res' = [res EXCEPT ![t] = "none"]
  /\ SnapStep(t, NoSnap)
  /\ UNCHANGED <<ptr, in_use, arg, guards, dropping, panicked, lastLent, scen, run, hist>>
  /\ LinStep(t, <<"reclaim", NULL>>)

\* else if self.ptr.swap(null_mut(), SeqCst).is_null() { unreachable!(..) } else { Ok(()) }
ReclaimSwap(t) ==
  /\ pc[t] = "reclaim_swap"
  /\ ptr' = NULL
  /\ IF ptr = NULL
       THEN /\ res' = [res EXCEPT ![t] = "PanicMissingPointer"]
            /\ panicked' = [panicked EXCEPT ![t] = TRUE]
            /\ UNCHANGED hist
       ELSE /\ res' = [res EXCEPT ![t] = "Ok"]
            /\ hist' = [hist EXCEPT !.loaned = FALSE]
            /\ UNCHANGED panicked
  /\ pc' = [pc EXCEPT ![t] = "idle"]
  /\ SnapStep(t, NoSnap)
  /\ UNCHANGED <<in_use, arg, guards, dropping, lastLent, scen, run>>
  /\ LinStep(t, <<"reclaim", NULL>>)

(***************************************************************************)
(* FfiGuard::drop: compare_exchange(null, self.ptr).expect(..), then       *)
(* in_use.swap(false) and the assertion on what it returned.  A guard is   *)
(* dropped by the thread holding it, between two of its calls or while it  *)
(* unwinds from a panic.                                                   *)
(***************************************************************************)
\* self.cell.ptr.compare_exchange(null_mut(), self.ptr.as_ptr(), ..).expect(..)
DropStore(t, i) ==
  /\ pc[t] = "idle"
  /\ i \in 1..Len(guards[t])
  /\ guards' = [guards EXCEPT ![t] =
                  SubSeq(@, 1, i - 1) \o SubSeq(@, i + 1, Len(@))]
  /\ IF ptr = NULL
       THEN /\ ptr' = guards[t][i]
            /\ dropping' = [dropping EXCEPT ![t] = guards[t][i]]
            /\ pc' = [pc EXCEPT ![t] = "drop_clear"]
            /\ res' = [res EXCEPT ![t] = "none"]
            /\ UNCHANGED panicked
       ELSE /\ res' = [res EXCEPT ![t] = "PanicAnotherPointer"]
            /\ panicked' = [panicked EXCEPT ![t] = TRUE]
            /\ UNCHANGED <<ptr, dropping, pc>>
  /\ SnapStep(t, snap[t])
  /\ UNCHANGED <<in_use, arg, lastLent, scen, run, hist>>
  /\ LinStep(t, <<"release", guards[t][i]>>)

\* Mutant of DropClear: the flag is read and asserted but not cleared.
DropClear_NoClear(t) ==
  /\ pc[t] = "drop_clear"
  /\ in_use' = in_use
  /\ IF in_use
       THEN /\ res' = [res EXCEPT ![t] = "Released"]
            /\ UNCHANGED panicked
       ELSE /\ res' = [res EXCEPT ![t] = "PanicNotInUse"]
            /\ panicked' = [panicked EXCEPT ![t] = TRUE]
  /\ dropping' = [dropping EXCEPT ![t] = NULL]
  /\ pc' = [pc EXCEPT ![t] = "idle"]
  /\ SnapStep(t, snap[t])
  /\ UNCHANGED <<ptr, arg, guards, lastLent, scen, run, hist>>
  /\ LinStep(t, <<"release", dropping[t]>>)

\* let was_in_use = self.cell.in_use.swap(false, SeqCst); assert!(was_in_use, ..)
DropClear(t) ==
  /\ pc[t] = "drop_clear"
  /\ in_use' = FALSE
  /\ IF in_use
       THEN /\ res' = [res EXCEPT ![t] = "Released"]
            /\ UNCHANGED panicked
       ELSE /\ res' = [res EXCEPT ![t] = "PanicNotInUse"]
            /\ panicked' = [panicked EXCEPT ![t] = TRUE]
  /\ dropping' = [dropping EXCEPT ![t] = NULL]
  /\ pc' = [pc EXCEPT ![t] = "idle"]
  /\ SnapStep(t, snap[t])
  /\ UNCHANGED <<ptr, arg, guards, lastLent, scen, run, hist>>
  /\ LinStep(t, <<"release", dropping[t]>>)

\* Any number of threads calling try_lend, try_borrow, try_reclaim and
\* dropping the guards they hold, in any interleaving of the atomic steps.
Next ==
  \E t \in Threads :
    \/ \E a \in Addrs : LendCheck(t, a)
    \/ LendCas(t)
    \/ BorrowClaim(t)
    \/ BorrowTake(t)
    \/ ReclaimCheck(t)
    \/ ReclaimSwap(t)
    \/ \E i \in 1..Len(guards[t]) : DropStore(t, i)
    \/ DropClear(t)

Spec == Init /\ [][Next]_vars

SpecLin == InitLin /\ [][Next]_vars

(***************************************************************************)
(* Races: two or more threads (scen.who) each make one call of the same    *)
(* kind, concurrently, on a cell that is Empty (try_lend) or Lent          *)
(* (try_borrow); nothing else touches the cell.                            *)
(***************************************************************************)
InitRace ==
  /\ lin = {}
  /\ \E w \in SUBSET Threads :
       /\ Cardinality(w) >= 2
       /\ \/ /\ scen = [kind |-> "lend", who |-> w]
             /\ InitCell(NULL)
          \/ \E a \in Addrs :
               /\ scen = [kind |-> "borrow", who |-> w]
               /\ InitCell(a)

\* The thread has not made its call yet.
NotCalled(t) == pc[t] = "idle" /\ res[t] = "none"

\* The thread makes its one try_lend call.
RaceLend(t) ==
  /\ scen.kind = "lend" /\ t \in scen.who /\ NotCalled(t)
  /\ \E a \in Addrs : LendCheck(t, a)

\* The thread makes its one try_borrow call.
RaceBorrow(t) ==
  /\ scen.kind = "borrow" /\ t \in scen.who /\ NotCalled(t)
  /\ BorrowClaim(t)

NextRace ==
  \E t \in Threads :
    \/ RaceLend(t)
    \/ LendCas(t)
    \/ RaceBorrow(t)
    \/ BorrowTake(t)

SpecRace == InitRace /\ [][NextRace]_vars

\* Every thread of the race has made its call and the call has returned.
RaceOver == \A t \in scen.who : pc[t] = "idle" /\ res[t] # "none"

\* C6: of the concurrent try_lend attempts on an Empty cell exactly one
\* returns Ok and every other fails with a LendError; the cell holds the
\* address of the successful lend.
C6_OneLendWins ==
  scen.kind = "lend" /\ RaceOver
    => /\ Cardinality({t \in scen.who : res[t] = "Ok"}) = 1
       /\ \A t \in scen.who : res[t] \in {"Ok"} \cup LendErrors
       /\ ptr # NULL /\ ptr = lastLent /\ ~in_use
\* Two threads have raced to lend and both calls have returned.
C6_Witness ==
  scen.kind = "lend" /\ Cardinality(scen.who) = 2 /\ RaceOver

\* C7: of the concurrent try_borrow attempts on a Lent cell exactly one
\* returns a guard and every other fails with a BorrowError.
C7_OneBorrowWins ==
  scen.kind = "borrow" /\ RaceOver
    => /\ Cardinality({t \in scen.who : res[t] = "Guard"}) = 1
       /\ \A t \in scen.who : res[t] \in {"Guard"} \cup BorrowErrors
       /\ \A t \in scen.who : Len(guards[t]) = (IF res[t] = "Guard" THEN 1 ELSE 0)
\* Two threads have raced to borrow and both calls have returned.
C7_Witness ==
  scen.kind = "borrow" /\ Cardinality(scen.who) = 2 /\ RaceOver


(***************************************************************************)
(* Guards.                                                                 *)
(***************************************************************************)
\* The guards try_borrow has returned whose drop has not started.
Held == {t \in Threads : guards[t] # <<>>}
\* The number of guards outstanding: returned by try_borrow, release not finished.
RECURSIVE SumLen(_)
SumLen(S) ==
  IF S = {} THEN 0
  ELSE LET t == CHOOSE x \in S : TRUE IN Len(guards[t]) + SumLen(S \ {t})
Outstanding == SumLen(Threads) + Cardinality({t \in Threads : dropping[t] # NULL})

\* C1: in every interleaving at most one access guard is outstanding (from
\* the return of try_borrow until the end of its release).
C1_AtMostOneGuard == Outstanding <= 1
\* A guard is outstanding while other threads are in the middle of calls.
C1_Witness ==
  /\ Outstanding = 1
  /\ \E t \in Threads : pc[t] = "borrow_take" \/ res[t] = "AlreadyBorrowed"

\* C2: whenever try_reclaim returns Ok, no guard whose release has not
\* begun is outstanding.
C2_ReclaimOkNoGuard ==
  [][\A t \in Threads : ReclaimSwap(t) /\ res'[t] = "Ok" => Held = {}]_vars

\* C3: a guard returned by try_borrow holds the address passed to the most
\* recent successful try_lend.
C3_GuardIsLastLent ==
  [][\A t \in Threads :
       BorrowTake(t) /\ res'[t] = "Guard"
         => guards'[t][Len(guards'[t])] = lastLent]_vars

\* C4: while a guard is outstanding and its release has not started, the
\* stored address is null and the busy flag is true.
C4_GuardMeansBorrowed == Held # {} => ptr = NULL /\ in_use

\* C9: (address present, busy) occurs only while a guard release is between
\* its two steps; it is never the state of the cell when no release is in
\* progress.  try_borrow passes through (present, busy) between its own two
\* steps, which the claim leaves out; the formula lets that pass, so that
\* what violates it is a cell left (present, busy) with no call in flight.
C9_PresentBusyOnlyInRelease ==
  ptr # NULL /\ in_use => \E t \in Threads : pc[t] \in {"drop_clear", "borrow_take"}

\* C10: try_reclaim called while a guard is outstanding fails with InUse
\* and leaves the stored address and the busy flag unchanged.
C10_ReclaimInUse ==
  [][\A t \in Threads :
       ReclaimCheck(t) /\ Outstanding > 0
         => res'[t] = "InUse" /\ pc'[t] = "idle" /\ ptr' = ptr /\ in_use' = in_use]_vars
\* A try_reclaim has just returned InUse with a guard outstanding.
C10_Witness ==
  \E t \in Threads : res[t] = "InUse" /\ pc[t] = "idle" /\ Outstanding > 0

\* C5: borrow followed by the release of the guard, with no step of another
\* thread in between, returns the cell to the state (address a, not busy)
\* the borrow found.
C5_ReleaseRestores ==
  \A t \in Threads :
    snap[t] # NoSnap /\ pc[t] = "idle" /\ res[t] = "Released"
      => snap[t].p # NULL /\ ptr = snap[t].p /\ in_use = snap[t].b /\ ~in_use
\* A thread has borrowed from a Lent cell and released, undisturbed.
C5_Witness ==
  \E t \in Threads : snap[t] # NoSnap /\ pc[t] = "idle" /\ res[t] = "Released"

\* No call is in flight.
Quiescent == \A t \in Threads : pc[t] = "idle"

\* C8: the cell is linearizable: the results returned so far, and the cell
\* once no call is in flight, are those of the same calls taking effect one
\* at a time, atomically, in an order consistent with real time.
C8_Linearizable ==
  /\ lin # {}
  /\ Quiescent => \E c \in lin : c.p = ptr /\ c.b = in_use

(***************************************************************************)
(* try_run(object, f): try_lend(object)?, then a ScopeGuard whose drop     *)
(* calls reclaim(), then f().  The operation f is any sequence of calls    *)
(* the thread makes while run[t] > 0; it ends by returning or by a panic.  *)
(* The ScopeGuard is dropped when try_run is left either way; on a panic   *)
(* the guards the operation holds are dropped before it.  A panic raised   *)
(* while the thread already unwinds aborts the process.                    *)
(***************************************************************************)
\* try_run: self.try_lend(object)?, the load of in_use
RunCall(t, a) ==
  /\ CanCall(t)
  /\ run[t] < MaxRunDepth
  /\ IF in_use
       THEN /\ res' = [res EXCEPT ![t] = "AlreadyLent"]
            /\ hist' = [hist EXCEPT !.runErr = TRUE]
            /\ UNCHANGED <<pc, arg>>
       ELSE /\ pc' = [pc EXCEPT ![t] = "run_lend_cas"]
            /\ arg' = [arg EXCEPT ![t] = a]
            /\ res' = [res EXCEPT ![t] = "none"]
            /\ UNCHANGED hist
  /\ SnapStep(t, NoSnap)
  /\ UNCHANGED <<ptr, in_use, guards, dropping, panicked, lastLent, scen, lin, run>>

\* Mutant of RunLendCas: the ScopeGuard is made before the lend is tried, so
\* it is there when the lend fails as well.
RunLendCas_GuardFirst(t) ==
  /\ pc[t] = "run_lend_cas"
  /\ IF ptr = NULL
       THEN /\ ptr' = arg[t]
            /\ lastLent' = arg[t]
            /\ hist' = [hist EXCEPT !.loaned = TRUE]
            /\ res' = [res EXCEPT ![t] = "Ok"]
       ELSE /\ res' = [res EXCEPT ![t] = "AlreadyHasLoan"]
            /\ hist' = [hist EXCEPT !.runErr = TRUE]
            /\ UNCHANGED <<ptr, lastLent>>
  /\ run' = [run EXCEPT ![t] = @ + 1]
  /\ pc' = [pc EXCEPT ![t] = "idle"]
  /\ arg' = [arg EXCEPT ![t] = NULL]
  /\ SnapStep(t, NoSnap)
  /\ UNCHANGED <<in_use, guards, dropping, panicked, scen, lin>>

\* try_run: the compare_exchange of try_lend; Err leaves try_run through `?`,
\* Ok makes the ScopeGuard and enters f()
RunLendCas(t) ==
  /\ pc[t] = "run_lend_cas"
  /\ IF ptr = NULL
       THEN /\ ptr' = arg[t]
            /\ lastLent' = arg[t]
            /\ hist' = [hist EXCEPT !.loaned = TRUE]
            /\ res' = [res EXCEPT ![t] = "Ok"]
            /\ run' = [run EXCEPT ![t] = @ + 1]
       ELSE /\ res' = [res EXCEPT ![t] = "AlreadyHasLoan"]
            /\ hist' = [hist EXCEPT !.runErr = TRUE]
            /\ UNCHANGED <<ptr, lastLent, run>>
  /\ pc' = [pc EXCEPT ![t] = "idle"]
  /\ arg' = [arg EXCEPT ![t] = NULL]
  /\ SnapStep(t, NoSnap)
  /\ UNCHANGED <<in_use, guards, dropping, panicked, scen, lin>>

\* The operation of a try_run fails abruptly (a panic of its own, or the
\* unwrap of an error by lend, borrow, reclaim or run).
OpPanic(t) ==
  /\ CanCall(t)
  /\ run[t] > 0
  /\ panicked' = [panicked EXCEPT ![t] = TRUE]
  /\ SnapStep(t, snap[t])
  /\ UNCHANGED <<ptr, in_use, pc, arg, guards, dropping, res, lastLent, scen, lin, run, hist>>

\* The thread leaves the innermost try_run it is in: f() has returned, or
\* it has panicked and the guards it held are dropped.
CanExit(t) ==
  /\ pc[t] = "idle"
  /\ run[t] > 0
  /\ panicked[t] => guards[t] = <<>>

\* ScopeGuard::drop -> reclaim(): the load of in_use in try_reclaim; InUse
\* is unwrapped into a panic
RunExitCheck(t) ==
  /\ CanExit(t)
  /\ IF in_use
       THEN /\ res' = [res EXCEPT ![t] = "InUse"]
            /\ panicked' = [panicked EXCEPT ![t] = TRUE]
            /\ pc' = [pc EXCEPT ![t] = IF panicked[t] THEN "aborted" ELSE "idle"]
            /\ run' = [run EXCEPT ![t] = @ - 1]
       ELSE /\ pc' = [pc EXCEPT ![t] = "run_reclaim_swap"]
            /\ res' = [res EXCEPT ![t] = "none"]
            /\ UNCHANGED <<panicked, run>>
  /\ SnapStep(t, NoSnap)
  /\ UNCHANGED <<ptr, in_use, arg, guards, dropping, lastLent, scen, lin, hist>>

\* Mutant of RunExitSwap: the ScopeGuard is forgotten, its reclaim not made.
RunExitSwap_NoReclaim(t) ==
  /\ pc[t] = "run_reclaim_swap"
  /\ res' = [res EXCEPT ![t] = "Ok"]
  /\ pc' = [pc EXCEPT ![t] = "idle"]
  /\ run' = [run EXCEPT ![t] = @ - 1]
  /\ SnapStep(t, NoSnap)
  /\ UNCHANGED <<ptr, in_use, arg, guards, dropping, panicked, lastLent, scen, lin, hist>>

\* ScopeGuard::drop -> reclaim(): the swap of try_reclaim
RunExitSwap(t) ==
  /\ pc[t] = "run_reclaim_swap"
  /\ ptr' = NULL
  /\ IF ptr = NULL
       THEN /\ res' = [res EXCEPT ![t] = "PanicMissingPointer"]
            /\ panicked' = [panicked EXCEPT ![t] = TRUE]
            /\ pc' = [pc EXCEPT ![t] = IF panicked[t] THEN "aborted" ELSE "idle"]
            /\ UNCHANGED hist
       ELSE /\ res' = [res EXCEPT ![t] = "Ok"]
            /\ hist' = [hist EXCEPT !.loaned = FALSE]
            /\ pc' = [pc EXCEPT ![t] = "idle"]
            /\ UNCHANGED panicked
  /\ run' = [run EXCEPT ![t] = @ - 1]
  /\ SnapStep(t, NoSnap)
  /\ UNCHANGED <<in_use, arg, guards, dropping, lastLent, scen, lin>>

(***************************************************************************)
(* One thread alone (scen.who) calls into a fresh cell, so that each call  *)
(* ends before the next begins.  scen.kind = "seq": it makes any calls, in *)
(* any order, try_run and the calls of its operation included;             *)
(* scen.kind = "script": it makes the calls of the test, lend(a), borrow,  *)
(* drop of the guard, reclaim.                                             *)
(***************************************************************************)
InitSeq ==
  /\ InitCell(NULL)
  /\ lin = {}
  /\ \E t \in Threads, k \in {"seq", "script"} : scen = [kind |-> k, who |-> {t}]

\* The next call of the script, from what the last one returned; the
\* wrappers lend, borrow and reclaim panic on an error, which ends it.
ScriptNext(t) ==
  CASE res[t] = "none" -> "lend"
    [] res[t] = "Ok" /\ hist.loaned -> "borrow"
    [] res[t] = "Guard" -> "drop"
    [] res[t] = "Released" -> "reclaim"
    [] OTHER -> "done"

\* The thread of the scenario may make call c now.
MayCall(t, c) ==
  /\ t \in scen.who
  /\ scen.kind = "script" => ScriptNext(t) = c

OwnLend(t) == MayCall(t, "lend") /\ \E a \in Addrs : LendCheck(t, a)
OwnBorrow(t) == MayCall(t, "borrow") /\ BorrowClaim(t)
OwnDrop(t) == MayCall(t, "drop") /\ \E i \in 1..Len(guards[t]) : DropStore(t, i)
OwnReclaim(t) == MayCall(t, "reclaim") /\ ReclaimCheck(t)
OwnRun(t) == MayCall(t, "run") /\ \E a \in Addrs : RunCall(t, a)

NextSeq ==
  \E t \in Threads :
    \/ OwnLend(t)
    \/ LendCas(t)
    \/ OwnBorrow(t)
    \/ BorrowTake(t)
    \/ OwnReclaim(t)
    \/ ReclaimSwap(t)
    \/ OwnDrop(t)
    \/ DropClear(t)
    \/ OwnRun(t)
    \/ RunLendCas(t)
    \/ OpPanic(t)
    \/ RunExitCheck(t)
    \/ RunExitSwap(t)

SpecSeq == InitSeq /\ [][NextSeq]_vars

(***************************************************************************)
(* Calls made one after the other (SpecSeq).                               *)
(***************************************************************************)
\* C11: a try_lend on a cell that holds a lent address (no reclaim since the
\* lend that stored it) gets past the busy check and fails with
\* AlreadyHasLoan; the cell still holds the first address and is not busy.
C11_SecondLendFails ==
  [][\A t \in Threads :
       /\ (\E a \in Addrs : LendCheck(t, a)) /\ ptr # NULL /\ ~in_use
            => pc'[t] = "lend_cas" /\ ptr' = ptr /\ ~in_use'
       /\ LendCas(t) /\ ptr # NULL
            => /\ res'[t] = "AlreadyHasLoan" /\ pc'[t] = "idle"
               /\ ptr' = ptr /\ ptr' = lastLent' /\ ~in_use']_vars
\* A try_lend has just failed with AlreadyHasLoan on a cell lent to once.
C11_Witness ==
  \E t \in Threads :
    /\ scen.kind = "seq" /\ pc[t] = "idle" /\ res[t] = "AlreadyHasLoan"
    /\ ~hist.runErr /\ ptr # NULL /\ ptr = lastLent /\ ~in_use

\* The thread leaves a try_run (the reclaim of its ScopeGuard ends) holding
\* no guard.
RunLeft(t) ==
  /\ RunExitCheck(t) \/ RunExitSwap(t)
  /\ run'[t] < run[t]
  /\ guards[t] = <<>>

\* C12 as stated: whenever a run is left, by return or by a panic of its
\* operation, with every guard borrowed in the operation released, the cell
\* then holds no address and is not busy.
C12_RunEndsEmpty ==
  [][\A t \in Threads : RunLeft(t) => ptr' = NULL /\ ~in_use']_vars

\* C12 amended: the same, provided no try_borrow has returned Unavailable
\* (and no other thread calls into the cell during the run, as in SpecSeq).
C12_RunEndsEmptyUnlessStuck ==
  [][\A t \in Threads : RunLeft(t) /\ ~hist.stuck => ptr' = NULL /\ ~in_use']_vars
\* The operation of a run has panicked and the reclaim made while unwinding
\* has returned Ok.
C12_Witness ==
  \E t \in Threads :
    /\ panicked[t] /\ run[t] = 0 /\ pc[t] = "idle" /\ res[t] = "Ok"
    /\ ~hist.stuck /\ ptr = NULL /\ ~in_use

\* The thread running the script.
Owner == CHOOSE t \in Threads : t \in scen.who

\* C13: from a fresh cell the sequence lend(a), borrow, drop of the guard,
\* reclaim, made by one thread, returns no error and does not panic; after
\* the lend the cell is Lent (a, not busy), after the borrow Borrowed (null,
\* busy) with a guard for a, after the drop Lent again, after the reclaim
\* Empty, and the script stops only there.
C13_TestSequence ==
  scen.kind = "script" =>
    LET t == Owner IN
    /\ res[t] \in {"none", "Ok", "Guard", "Released"}
    /\ ~panicked[t]
    /\ pc[t] = "idle" =>
         CASE ScriptNext(t) = "lend" -> ptr = NULL /\ ~in_use
           [] ScriptNext(t) = "borrow" -> ptr \in Addrs /\ ptr = lastLent /\ ~in_use
           [] ScriptNext(t) = "drop" -> ptr = NULL /\ in_use /\ guards[t] = <<lastLent>>
           [] ScriptNext(t) = "reclaim" -> ptr = lastLent /\ ~in_use /\ guards[t] = <<>>
           [] OTHER -> ptr = NULL /\ ~in_use /\ res[t] = "Ok" /\ guards[t] = <<>>
    /\ ~ENABLED NextSeq => pc[t] = "idle" /\ ScriptNext(t) = "done"
\* The script has run to its end.
C13_Witness ==
  /\ scen.kind = "script"
  /\ \E t \in scen.who : pc[t] = "idle" /\ res[t] = "Ok" /\ ~hist.loaned /\ ptr = NULL /\ ~in_use

(***************************************************************************)
(* Any number of threads (Spec).                                           *)
(***************************************************************************)
\* C14 (I1) as stated: whenever the cell is busy, it held an address earlier
\* and a guard for that address is outstanding; this for every sequence of
\* calls, borrows on a cell never lent to included.  The instant between the
\* two steps of a try_borrow is let pass.
C14_BusyMeansCheckedOut ==
  in_use => \/ lastLent # NULL /\ Outstanding >= 1
            \/ \E t \in Threads : pc[t] = "borrow_take"

\* C14 amended: whenever the cell is busy, a try_borrow has claimed it: that
\* try_borrow is between its two steps, or it returned a guard (for an
\* address lent earlier) whose release has not completed - the guard is
\* outstanding or its release failed at the first step -, or it returned
\* Unavailable.
C14_BusyHasClaimant ==
  in_use => \/ lastLent # NULL /\ Outstanding >= 1
            \/ \E t \in Threads : pc[t] = "borrow_take"
            \/ \E t \in Threads : res[t] = "PanicAnotherPointer"
            \/ hist.stuck
\* The cell is busy with no guard and no call in flight, after a try_borrow
\* returned Unavailable.
C14_Witness ==
  in_use /\ hist.stuck /\ Outstanding = 0 /\ Quiescent

\* The second atomic step of whichever call thread t is in the middle of.
Finish(t) == LendCas(t) \/ BorrowTake(t) \/ ReclaimSwap(t) \/ DropClear(t)

\* C15: every call is non-blocking.  A call that has not returned at its
\* first atomic step returns (or panics) at its next one, and that step is
\* enabled whatever the cell holds and wherever the other threads are: if
\* the calling thread alone is scheduled fairly, the call finishes.
C15_NonBlocking ==
  /\ [][\A t \in Threads : pc[t] # "idle" /\ pc'[t] # pc[t] => pc'[t] = "idle"]_vars
  /\ [](\A t \in Threads : pc[t] # "idle" => ENABLED Finish(t))
  /\ \A t \in Threads : WF_vars(Finish(t)) => (pc[t] # "idle" ~> pc[t] = "idle")
\* A try_lend is past its busy check while the slot holds an address and the
\* cell is busy: a lend that waited for the slot would wait here.
C15_Witness ==
  \E t \in Threads : pc[t] = "lend_cas" /\ ptr # NULL /\ in_use

\* C16: no lend stores an address while a borrow is outstanding, and so no
\* guard release ever finds the slot occupied and panics with "tried to
\* return lent pointer, but another pointer was there".
C16_ReleaseFindsSlotEmpty ==
  \A t \in Threads : res[t] # "PanicAnotherPointer"

\* C17: when a lend has succeeded and no reclaim has succeeded since, a
\* try_reclaim that gets past its busy check returns Ok: it never reaches
\* "missing pointer when not in use".
C17_ReclaimNeverMissing ==
  [][\A t \in Threads : ReclaimSwap(t) /\ hist.loaned => res'[t] = "Ok"]_vars

\* C18: a try_borrow that finds no address returns Unavailable, leaving the
\* cell busy with no guard; once that has happened the busy flag is never
\* cleared, and every try_borrow called afterwards returns AlreadyBorrowed,
\* every try_reclaim InUse and every try_lend AlreadyLent.
C18_UnavailableSticks ==
  [][/\ \A t \in Threads :
          BorrowTake(t) /\ ptr = NULL
            => res'[t] = "Unavailable" /\ in_use' /\ Outstanding' = 0
     /\ hist.stuck => in_use /\ in_use'
     /\ \A t \in Threads :
          hist.stuck =>
            /\ BorrowClaim(t) => res'[t] = "AlreadyBorrowed" /\ pc'[t] = "idle"
            /\ ReclaimCheck(t) => res'[t] = "InUse" /\ pc'[t] = "idle"
            /\ (\E a \in Addrs : LendCheck(t, a)) => res'[t] = "AlreadyLent" /\ pc'[t] = "idle"]_vars
\* On a cell never lent to a try_borrow has returned Unavailable, and since
\* then a try_borrow, a try_reclaim and a try_lend have failed.
C18_Witness ==
  /\ hist.stuck /\ lastLent = NULL /\ Quiescent /\ in_use /\ Outstanding = 0
  /\ \E t, u, v \in Threads :
       res[t] = "AlreadyBorrowed" /\ res[u] = "InUse" /\ res[v] = "AlreadyLent"

\* C19 (one thread, SpecSeq): when the lend of try_run fails - AlreadyLent on a
\* busy cell,
\* AlreadyHasLoan on a cell holding an address - try_run returns that error
\* at once: no ScopeGuard is made, so the operation is not entered and no
\* reclaim is made, and the cell is as it was.
C19_RunLendFails ==
  [][\A t \in Threads :
       /\ (\E a \in Addrs : RunCall(t, a)) /\ in_use
            => res'[t] = "AlreadyLent" /\ pc'[t] = "idle" /\ hist'.runErr
               /\ UNCHANGED <<run, ptr, in_use, panicked>>
       /\ RunLendCas(t) /\ ptr # NULL
            => res'[t] = "AlreadyHasLoan" /\ pc'[t] = "idle" /\ hist'.runErr
               /\ UNCHANGED <<run, ptr, in_use, panicked>>
       /\ run'[t] > run[t] => RunLendCas(t) /\ res'[t] = "Ok"]_vars
\* A try_run made inside the operation of a run has failed with
\* AlreadyHasLoan and the loan of the enclosing run stands.
C19_Witness ==
  \E t \in Threads :
    /\ hist.runErr /\ run[t] = 1 /\ pc[t] = "idle" /\ res[t] = "AlreadyHasLoan"
    /\ ptr # NULL /\ ptr = lastLent /\ ~in_use

\* C20: the busy flag is cleared only by the second step of a guard release
\* and set only by the first step of a try_borrow; every guard release that
\* gets to its second step finds the flag set, so that "object was not in
\* use when it was returned" is never raised.
C20_ReleaseFindsBusy ==
  [][/\ in_use /\ ~in_use' => \E t \in Threads : DropClear(t)
     /\ ~in_use /\ in_use' => \E t \in Threads : BorrowClaim(t)
     /\ \A t \in Threads :
          /\ DropClear(t) => in_use /\ res'[t] = "Released"
          /\ res'[t] # "PanicNotInUse"]_vars
\* A guard release has completed while another thread is past the busy
\* check of a call.
C20_Witness ==
  \E t, u \in Threads :
    /\ pc[t] = "idle" /\ res[t] = "Released" /\ ~in_use
    /\ pc[u] \in {"lend_cas", "reclaim_swap"}

====
